---------------------------- MODULE Spec2Model ----------------------------
(***************************************************************************)
(* Model of tarrif-tracker-dashboard.py: one Streamlit script that is      *)
(* re-run from top to bottom on every user interaction.  A run looks up    *)
(* USITC (when asked), optionally adds a watchlist document and sends an   *)
(* e-mail, previews the WTO spreadsheet, lists USTR PDF links, filters the *)
(* mock table and lists the watchlist.                                     *)
(*                                                                         *)
(* Texts that the code inspects character by character (table cells,       *)
(* hrefs) are sequences of one-character strings.                          *)
(***************************************************************************)
EXTENDS Integers, Sequences, FiniteSets, TLC

VARIABLES
    query,            \* st.text_input value of the current run (line 26)
    country,          \* st.selectbox "Country" (line 28)
    tariff_type,      \* st.selectbox "Tariff Type" (line 29)
    clicked,          \* the "Add to Watchlist" button triggered this run
    button_shown,     \* the button is on the page (line 104 was reached)
    pc,               \* position of the script run
    wire,             \* what the peer of the call in flight answers
    usitc_data,       \* line 99
    wto_data,         \* line 127
    ustr_links,       \* line 133
    watchlist_items,  \* line 171
    reports,          \* st.error / st.success / st.info shown by this run
    received,         \* what each external call of this run came back with
    store,            \* documents of the Firestore collection "watchlist"
    added,            \* the entries of the add calls that succeeded, in order
    clock             \* Firestore server time

vars == <<query, country, tariff_type, clicked, button_shown, pc, wire,
          usitc_data, wto_data, ustr_links, watchlist_items, reports,
          received, store, added, clock>>

-----------------------------------------------------------------------------
(* Bounds of the model *)

MaxStore == 2      \* documents the store may hold
MaxRows == 3       \* rows of a table page (table specification)
MaxAnchors == 6    \* anchors of a listing page (link specification)

(* Program constants *)

MinColumns == 5
LinkLimit == 5
SkipRows == 6
PreviewRows == 10
SheetIndex == 1

Countries == <<"United States", "China", "EU", "Canada", "Mexico">>
TariffTypes == <<"Applied", "Bound", "Section 301", "TRQ">>

\* requests.get(url, timeout=10) is the only call given a timeout
TimedCalls == {"usitc"}

-----------------------------------------------------------------------------
(* Text helpers *)

IsSpace(c) == c = " "

RECURSIVE lstrip(_)
lstrip(s) == IF s # <<>> /\ IsSpace(Head(s)) THEN lstrip(Tail(s)) ELSE s

RECURSIVE rstrip(_)
rstrip(s) ==
    IF s # <<>> /\ IsSpace(s[Len(s)]) THEN rstrip(SubSeq(s, 1, Len(s) - 1)) ELSE s

\* cell.get_text(strip=True) of a cell holding one text node
get_text(cell) == rstrip(lstrip(cell))

\* str.endswith
endswith(s, suffix) ==
    /\ Len(s) >= Len(suffix)
    /\ SubSeq(s, Len(s) - Len(suffix) + 1, Len(s)) = suffix

PdfSuffix == <<".", "p", "d", "f">>

\* seq[:n]
Take(seq, n) == SubSeq(seq, 1, IF Len(seq) < n THEN Len(seq) ELSE n)

-----------------------------------------------------------------------------
(* scrape_usitc_tariffs: rows to records *)

has_min_columns_strict(cells) == Len(cells) > MinColumns

\* line 42
has_min_columns(cells) == Len(cells) >= MinColumns

\* lines 43-49
to_record(cells) ==
    [HSCode |-> get_text(cells[1]),
     Product |-> get_text(cells[2]),
     TariffRate |-> get_text(cells[3]),
     Unit |-> get_text(cells[4]),
     EffectiveDate |-> get_text(cells[5])]

\* lines 38-49: the loop over "#search-results tbody tr"
RECURSIVE scrape_rows(_)
scrape_rows(rows) ==
    IF rows = <<>> THEN <<>>
    ELSE (IF has_min_columns(Head(rows)) THEN <<to_record(Head(rows))>> ELSE <<>>)
         \o scrape_rows(Tail(rows))

\* response.raise_for_status(): HTTPError for 4xx and 5xx
raise_for_status(status) == status >= 400 /\ status < 600

\* lines 32-54.  requests.get raises on a connection error or a timeout,
\* raise_for_status on an error status; the except clause reports and
\* returns an empty frame.
scrape_usitc_tariffs(r) ==
    IF r.kind # "http" \/ raise_for_status(r.status)
    THEN [ret |-> <<>>, errors |-> {"usitc_error"}, raised |-> FALSE]
    ELSE [ret |-> scrape_rows(r.body), errors |-> {}, raised |-> FALSE]

-----------------------------------------------------------------------------
(* scrape_wto_tariffs *)

\* pd.read_excel(url, sheet_name=1, skiprows=6): urlopen raises on a network
\* error and on an error status, the reader on a file that is no workbook
\* or has no second sheet
read_excel_raises(r) ==
    \/ r.kind # "http"
    \/ r.status >= 400
    \/ ~r.valid
    \/ Len(r.body) < SheetIndex + 1

\* the rows left after the skipped rows and the header row
read_excel(r) ==
    LET sheet == r.body[SheetIndex + 1]
    IN  SubSeq(sheet, SkipRows + 2, Len(sheet))

\* lines 57-64
scrape_wto_tariffs(r) ==
    IF read_excel_raises(r)
    THEN [ret |-> <<>>, errors |-> {"wto_error"}, raised |-> FALSE]
    ELSE [ret |-> Take(read_excel(r), PreviewRows), errors |-> {}, raised |-> FALSE]

-----------------------------------------------------------------------------
(* get_ustr_updates *)

\* line 72: link.get("href") and link.get("href").endswith(".pdf")
keeps_link(a) == a.has_href /\ a.href # <<>> /\ endswith(a.href, PdfSuffix)

RECURSIVE pdf_hrefs(_)
pdf_hrefs(links) ==
    IF links = <<>> THEN <<>>
    ELSE (IF keeps_link(Head(links)) THEN <<Head(links).href>> ELSE <<>>)
         \o pdf_hrefs(Tail(links))

ustr_updates_cap_first(links) == pdf_hrefs(Take(links, LinkLimit))

\* lines 71-73: filter, then updates[:5]
ustr_updates(links) == Take(pdf_hrefs(links), LinkLimit)

\* lines 67-76.  No raise_for_status: a response of any status is parsed.
get_ustr_updates(r) ==
    IF r.kind # "http"
    THEN [ret |-> <<>>, errors |-> {"ustr_error"}, raised |-> FALSE]
    ELSE [ret |-> ustr_updates(r.body), errors |-> {}, raised |-> FALSE]

-----------------------------------------------------------------------------
(* send_email_alert *)

send_email_alert_uncaught(r) ==
    IF r.kind = "sent"
    THEN [ret |-> TRUE, errors |-> {}, raised |-> FALSE]
    ELSE [ret |-> FALSE, errors |-> {}, raised |-> TRUE]

\* lines 79-94: every exception of the SMTP session is reported, False returned
send_email_alert(r) ==
    IF r.kind = "sent"
    THEN [ret |-> TRUE, errors |-> {}, raised |-> FALSE]
    ELSE [ret |-> FALSE, errors |-> {"email_error"}, raised |-> FALSE]

-----------------------------------------------------------------------------
(* The watchlist collection *)

watchlist_upsert(docs, entry, ts) ==
    {d \in docs : ~(d.query = entry.query /\ d.country = entry.country
                    /\ d.tariff_type = entry.tariff_type)}
    \cup {[id |-> Cardinality(docs) + 1, query |-> entry.query,
           country |-> entry.country, tariff_type |-> entry.tariff_type,
           timestamp |-> ts]}

\* lines 106-112: watchlist_ref.add({...}) creates a new document; the
\* timestamp field is firestore.SERVER_TIMESTAMP, set by the server
watchlist_add(docs, entry, ts) ==
    docs \cup {[id |-> Cardinality(docs) + 1, query |-> entry.query,
                country |-> entry.country, tariff_type |-> entry.tariff_type,
                timestamp |-> ts]}

RECURSIVE order_by_timestamp_ascending(_)
order_by_timestamp_ascending(docs) ==
    IF docs = {} THEN <<>>
    ELSE LET d == CHOOSE x \in docs : \A y \in docs :
                      \/ x.timestamp < y.timestamp
                      \/ (x.timestamp = y.timestamp /\ x.id <= y.id)
         IN  <<d>> \o order_by_timestamp_ascending(docs \ {d})

\* line 170: order_by("timestamp", direction=DESCENDING).stream()
RECURSIVE order_by_timestamp(_)
order_by_timestamp(docs) ==
    IF docs = {} THEN <<>>
    ELSE LET d == CHOOSE x \in docs : \A y \in docs :
                      \/ x.timestamp > y.timestamp
                      \/ (x.timestamp = y.timestamp /\ x.id >= y.id)
         IN  <<d>> \o order_by_timestamp(docs \ {d})

\* line 171: the three displayed fields of each document
to_item(doc) ==
    [Query |-> doc.query, Country |-> doc.country, TariffType |-> doc.tariff_type]

to_items(docs) == [i \in 1..Len(docs) |-> to_item(docs[i])]

-----------------------------------------------------------------------------
(* What the user and the remote sides may supply *)

\* "(" is no regular expression: str.contains(query) raises on it (line 150)
Queries == {"", "0902.10", "("}
InputCountries == {"United States", "China"}
InputTypes == {"Applied", "Section 301"}

ColumnText == <<"h", "p", "r", "u", "d", "x", "y">>

\* a row of n cells, each naming its column and the row's tag; the cells of
\* a padded row carry surrounding blanks
Row(n, padded, tag) ==
    [i \in 1..n |-> IF padded THEN <<" ", ColumnText[i], tag, " ">>
                               ELSE <<ColumnText[i], tag>>]

GreenTea == <<"0", "9", "0", "2", ".", "1", "0">>

SampleRows ==
    <<Row(3, FALSE, "1"),
      <<GreenTea, <<"t", "e", "a">>, <<"6", ".", "4", "%">>, <<"k", "g">>,
        <<" ", "2", "0", "2", "5", " ">>>>,
      Row(6, TRUE, "2")>>

Http(status, body) == [kind |-> "http", status |-> status, body |-> body]
Failure(kind) == [kind |-> kind, status |-> 0, body |-> <<>>]
NoResponse == Failure("none")

UsitcResponses ==
    {Http(200, <<>>), Http(200, SampleRows), Http(200, <<Row(4, FALSE, "1")>>),
     Http(500, SampleRows), Failure("connection")}

Workbook(status, valid, sheets) ==
    [kind |-> "http", status |-> status, valid |-> valid, body |-> sheets]
NoWorkbook(kind) == [kind |-> kind, status |-> 0, valid |-> FALSE, body |-> <<>>]

Sheet(n) == [i \in 1..n |-> i]

WtoResponses ==
    {Workbook(200, TRUE, <<Sheet(2), Sheet(20)>>),
     Workbook(200, TRUE, <<Sheet(9)>>),
     Workbook(200, FALSE, <<>>),
     Workbook(500, FALSE, <<>>),
     NoWorkbook("connection")}

Anchor(href) == [has_href |-> TRUE, href |-> href]
NoHref == [has_href |-> FALSE, href |-> <<>>]

APdf == <<"/", "a", ".", "p", "d", "f">>
CPdf == <<"/", "c", ".", "p", "d", "f">>
BHtml == <<"/", "b", ".", "h", "t", "m", "l">>

SampleAnchors == <<Anchor(APdf), Anchor(BHtml), NoHref, Anchor(CPdf)>>

UstrResponses ==
    {Http(200, SampleAnchors), Http(200, <<>>), Http(500, SampleAnchors),
     Failure("connection")}

EmailResponses ==
    {[kind |-> "sent"], [kind |-> "auth_failed"], [kind |-> "unreachable"],
     [kind |-> "rejected"]}

StoreOutcomes == {"ok", "unavailable"}

\* no call in flight
NoWire == [kind |-> "none"]

\* the peer accepts the connection and never answers
Silent == [kind |-> "silent"]

NothingReceived ==
    [usitc |-> NoResponse, wto |-> NoWorkbook("none"), ustr |-> NoResponse,
     add |-> "none", email |-> "none", list |-> "none"]

-----------------------------------------------------------------------------
(* The script run *)

Idle == pc \in {"done", "crashed"}

\* a call returns with what the peer sent; when the peer stays silent it
\* returns only if it was given a timeout, and then with the timeout
Returns(call) == wire.kind = "silent" => call \in TimedCalls

Arrived(timeout) == IF wire.kind = "silent" THEN timeout ELSE wire

usitc_wanted_any_country(q, c) == q # ""

\* line 97
usitc_wanted(q, c) == q # "" /\ c = "United States"

\* re.compile(query) of str.contains, line 150
valid_pattern(q) == q # "("

add_except_uncaught(rep) == [pc |-> "crashed", reports |-> rep]

\* lines 120-121
add_except(rep) == [pc |-> "wto", reports |-> rep \cup {"add_error"}]

\* lines 176-177
list_except(rep) == [pc |-> "done", reports |-> rep \cup {"list_error"}]

Init ==
    /\ query = ""
    /\ country = Countries[1]
    /\ tariff_type = TariffTypes[1]
    /\ clicked = FALSE
    /\ button_shown = FALSE
    /\ pc = "main"
    /\ wire = NoWire
    /\ usitc_data = <<>>
    /\ wto_data = <<>>
    /\ ustr_links = <<>>
    /\ watchlist_items = <<>>
    /\ reports = {}
    /\ received = NothingReceived
    /\ store = {}
    /\ added = <<>>
    /\ clock = 0

\* a rerun starts from the top with nothing of the last run kept
Rerun ==
    /\ pc' = "main"
    /\ button_shown' = FALSE
    /\ wire' = NoWire
    /\ usitc_data' = <<>>
    /\ wto_data' = <<>>
    /\ ustr_links' = <<>>
    /\ watchlist_items' = <<>>
    /\ reports' = {}
    /\ received' = NothingReceived
    /\ UNCHANGED <<store, added, clock>>

\* lines 26-29: the user edits the inputs
ChangeInput ==
    /\ Idle
    /\ \E q \in Queries, c \in InputCountries, t \in InputTypes :
          /\ query' = q
          /\ country' = c
          /\ tariff_type' = t
    /\ clicked' = FALSE
    /\ Rerun

\* line 104: the user presses the button that the last run displayed
ClickAdd ==
    /\ Idle
    /\ button_shown
    /\ clicked' = TRUE
    /\ UNCHANGED <<query, country, tariff_type>>
    /\ Rerun

\* lines 97-99
UsitcGate ==
    /\ pc = "main"
    /\ IF usitc_wanted(query, country)
       THEN pc' = "usitc_wait" /\ wire' \in UsitcResponses \cup {Silent}
       ELSE pc' = "wto" /\ wire' = NoWire
    /\ UNCHANGED <<query, country, tariff_type, clicked, button_shown,
                   usitc_data, wto_data, ustr_links, watchlist_items, reports,
                   received, store, added, clock>>

\* lines 99-104 and 122-123
UsitcReturns ==
    /\ pc = "usitc_wait"
    /\ Returns("usitc")
    /\ LET r == Arrived(Failure("timeout"))
           res == scrape_usitc_tariffs(r)
           shown == ~res.raised /\ res.ret # <<>>
       IN  /\ usitc_data' = res.ret
           /\ button_shown' = shown
           /\ reports' = reports \cup res.errors
                  \cup (IF ~res.raised /\ res.ret = <<>> THEN {"no_results"} ELSE {})
           /\ pc' = IF res.raised THEN "crashed"
                    ELSE IF shown /\ clicked THEN "add" ELSE "wto"
           /\ received' = [received EXCEPT !.usitc = r]
    /\ wire' = NoWire
    /\ UNCHANGED <<query, country, tariff_type, clicked, wto_data, ustr_links,
                   watchlist_items, store, added, clock>>

\* lines 105-113, 120-121: the write, up to the call of send_email_alert
WatchlistAdd ==
    /\ pc = "add"
    /\ \E outcome \in StoreOutcomes, ts \in {clock + 1, clock + 2} :
          /\ outcome = "ok" => Cardinality(store) < MaxStore
          /\ received' = [received EXCEPT !.add = outcome]
          /\ IF outcome = "ok"
             THEN /\ store' = watchlist_add(store,
                                  [query |-> query, country |-> country,
                                   tariff_type |-> tariff_type], ts)
                  /\ added' = Append(added, [query |-> query, country |-> country,
                                              tariff_type |-> tariff_type])
                  /\ clock' = ts
                  /\ reports' = reports \cup {"added"}
                  /\ pc' = "email_wait"
                  /\ wire' \in EmailResponses \cup {Silent}
             ELSE /\ reports' = add_except(reports).reports
                  /\ pc' = add_except(reports).pc
                  /\ wire' = NoWire
                  /\ UNCHANGED <<store, added, clock>>
    /\ UNCHANGED <<query, country, tariff_type, clicked, button_shown,
                   usitc_data, wto_data, ustr_links, watchlist_items>>

\* lines 116-121: send_email_alert inside the try block of the add
EmailReturns ==
    /\ pc = "email_wait"
    /\ Returns("email")
    /\ LET r == Arrived([kind |-> "timeout"])
           res == send_email_alert(r)
       IN  /\ reports' = IF res.raised THEN add_except(reports \cup res.errors).reports
                         ELSE reports \cup res.errors
           /\ pc' = IF res.raised THEN add_except(reports).pc ELSE "wto"
           /\ received' = [received EXCEPT !.email = r.kind]
    /\ wire' = NoWire
    /\ UNCHANGED <<query, country, tariff_type, clicked, button_shown,
                   usitc_data, wto_data, ustr_links, watchlist_items, store, added, clock>>

\* line 127: the call of scrape_wto_tariffs
WtoCall ==
    /\ pc = "wto"
    /\ pc' = "wto_wait"
    /\ wire' \in WtoResponses \cup {Silent}
    /\ UNCHANGED <<query, country, tariff_type, clicked, button_shown,
                   usitc_data, wto_data, ustr_links, watchlist_items, reports,
                   received, store, added, clock>>

\* lines 127-129
WtoReturns ==
    /\ pc = "wto_wait"
    /\ Returns("wto")
    /\ LET r == Arrived(NoWorkbook("timeout"))
           res == scrape_wto_tariffs(r)
       IN  /\ wto_data' = res.ret
           /\ reports' = reports \cup res.errors
           /\ pc' = IF res.raised THEN "crashed" ELSE "ustr"
           /\ received' = [received EXCEPT !.wto = r]
    /\ wire' = NoWire
    /\ UNCHANGED <<query, country, tariff_type, clicked, button_shown,
                   usitc_data, ustr_links, watchlist_items, store, added, clock>>

\* line 133: the call of get_ustr_updates
UstrCall ==
    /\ pc = "ustr"
    /\ pc' = "ustr_wait"
    /\ wire' \in UstrResponses \cup {Silent}
    /\ UNCHANGED <<query, country, tariff_type, clicked, button_shown,
                   usitc_data, wto_data, ustr_links, watchlist_items, reports,
                   received, store, added, clock>>

\* lines 133-135
UstrReturns ==
    /\ pc = "ustr_wait"
    /\ Returns("ustr")
    /\ LET r == Arrived(Failure("timeout"))
           res == get_ustr_updates(r)
       IN  /\ ustr_links' = res.ret
           /\ reports' = reports \cup res.errors
           /\ pc' = IF res.raised THEN "crashed" ELSE "mock"
           /\ received' = [received EXCEPT !.ustr = r]
    /\ wire' = NoWire
    /\ UNCHANGED <<query, country, tariff_type, clicked, button_shown,
                   usitc_data, wto_data, watchlist_items, store, added, clock>>

\* lines 138-164: the mock table and the chart; str.contains compiles the
\* query as a regular expression and its error is not caught
MockFilter ==
    /\ pc = "mock"
    /\ pc' = IF query # "" /\ ~valid_pattern(query) THEN "crashed" ELSE "list"
    /\ UNCHANGED <<query, country, tariff_type, clicked, button_shown, wire,
                   usitc_data, wto_data, ustr_links, watchlist_items, reports,
                   received, store, added, clock>>

\* lines 167-177
WatchlistList ==
    /\ pc = "list"
    /\ \E outcome \in StoreOutcomes :
          /\ received' = [received EXCEPT !.list = outcome]
          /\ IF outcome = "ok"
             THEN /\ watchlist_items' = to_items(order_by_timestamp(store))
                  /\ reports' = reports \cup
                        (IF store = {} THEN {"empty_watchlist"} ELSE {})
                  /\ pc' = "done"
             ELSE /\ watchlist_items' = <<>>
                  /\ reports' = list_except(reports).reports
                  /\ pc' = list_except(reports).pc
    /\ UNCHANGED <<query, country, tariff_type, clicked, button_shown, wire,
                   usitc_data, wto_data, ustr_links, store, added, clock>>

Next ==
    \/ ChangeInput
    \/ ClickAdd
    \/ UsitcGate
    \/ UsitcReturns
    \/ WatchlistAdd
    \/ EmailReturns
    \/ WtoCall
    \/ WtoReturns
    \/ UstrCall
    \/ UstrReturns
    \/ MockFilter
    \/ WatchlistList

Spec == Init /\ [][Next]_vars

-----------------------------------------------------------------------------
(* The table extraction on every bounded page *)

TableRows ==
    {Row(n, padded, tag) : n \in {0, 4, 5, 6}, padded \in BOOLEAN, tag \in {"1", "2"}}

\* the pages of n rows
TablePages(n) == [1..n -> TableRows]

\* the run waits for the answer to the lookup of "0902.10"
InitTable ==
    /\ query = "0902.10"
    /\ country = "United States"
    /\ tariff_type = TariffTypes[1]
    /\ clicked = FALSE
    /\ button_shown = FALSE
    /\ pc = "usitc_wait"
    /\ \E n \in 0..MaxRows : wire \in {Http(200, page) : page \in TablePages(n)}
    /\ usitc_data = <<>>
    /\ wto_data = <<>>
    /\ ustr_links = <<>>
    /\ watchlist_items = <<>>
    /\ reports = {}
    /\ received = NothingReceived
    /\ store = {}
    /\ added = <<>>
    /\ clock = 0

NextTable == UsitcReturns

SpecTable == InitTable /\ [][NextTable]_vars

(* The link extraction on every bounded listing page *)

LinkAnchors ==
    {Anchor(APdf), Anchor(CPdf), Anchor(BHtml), Anchor(<<"p", "d", "f">>), NoHref}

\* the listing pages of n anchors
AnchorPages(n) == [1..n -> LinkAnchors]

\* the run, started with an empty query, waits for the listing page
InitLinks ==
    /\ query = ""
    /\ country = Countries[1]
    /\ tariff_type = TariffTypes[1]
    /\ clicked = FALSE
    /\ button_shown = FALSE
    /\ pc = "ustr_wait"
    /\ \E n \in 0..MaxAnchors : wire \in {Http(200, page) : page \in AnchorPages(n)}
    /\ usitc_data = <<>>
    /\ wto_data = <<>>
    /\ ustr_links = <<>>
    /\ watchlist_items = <<>>
    /\ reports = {"wto_error"}
    /\ received = [NothingReceived EXCEPT !.wto = NoWorkbook("connection")]
    /\ store = {}
    /\ added = <<>>
    /\ clock = 0

NextLinks == UstrReturns

SpecLinks == InitLinks /\ [][NextLinks]_vars

-----------------------------------------------------------------------------
(* Properties *)

Range(f) == {f[i] : i \in DOMAIN f}

\* the k-th smallest member of a set of naturals
Kth(S, k) == CHOOSE i \in S : Cardinality({j \in S : j <= i}) = k

Reverse(q) == [i \in 1..Len(q) |-> q[Len(q) + 1 - i]]

Min(a, b) == IF a < b THEN a ELSE b

ErrorStatus(r) == r.kind = "http" /\ r.status >= 400

EntryOfRun == [query |-> query, country |-> country, tariff_type |-> tariff_type]

ItemOf(e) == [Query |-> e.query, Country |-> e.country, TariffType |-> e.tariff_type]

EmailFailures == {"auth_failed", "unreachable", "rejected"}

\* C1: from a successfully fetched page the table extraction returns one
\* record per row of at least 5 cells, in row order, its five fields the
\* (stripped) texts of cells 0..4 of that row; shorter rows give no record
\* and no error, and there are never more records than rows.
C1_RecordPerFullRow ==
    (received.usitc.kind = "http" /\ received.usitc.status = 200) =>
        LET rows == received.usitc.body
            full == {i \in 1..Len(rows) : Len(rows[i]) >= 5}
        IN  /\ Len(usitc_data) = Cardinality(full)
            /\ Len(usitc_data) <= Len(rows)
            /\ "usitc_error" \notin reports
            /\ \A k \in 1..Len(usitc_data) :
                  LET cells == rows[Kth(full, k)]
                  IN  /\ usitc_data[k].HSCode = get_text(cells[1])
                      /\ usitc_data[k].Product = get_text(cells[2])
                      /\ usitc_data[k].TariffRate = get_text(cells[3])
                      /\ usitc_data[k].Unit = get_text(cells[4])
                      /\ usitc_data[k].EffectiveDate = get_text(cells[5])

\* a page of a short row between a row of exactly 5 cells and a longer,
\* padded one gave the two records, blanks stripped
C1_Witness ==
    /\ received.usitc = Http(200, <<Row(5, FALSE, "1"), Row(4, FALSE, "1"),
                                    Row(6, TRUE, "2")>>)
    /\ Len(usitc_data) = 2
    /\ usitc_data[1].HSCode = <<"h", "1">>
    /\ usitc_data[2].EffectiveDate = <<"d", "2">>

\* C2: the link extraction returns the first 5 (or fewer) hrefs ending in
\* ".pdf", in document order: filtered first, capped afterwards.
C2_FirstFivePdfLinks ==
    received.ustr.kind = "http" =>
        LET anchors == received.ustr.body
            pdf == {i \in 1..Len(anchors) :
                       /\ anchors[i].has_href
                       /\ Len(anchors[i].href) >= 4
                       /\ SubSeq(anchors[i].href, Len(anchors[i].href) - 3,
                                 Len(anchors[i].href)) = <<".", "p", "d", "f">>}
        IN  /\ Len(ustr_links) = Min(5, Cardinality(pdf))
            /\ \A k \in 1..Len(ustr_links) : ustr_links[k] = anchors[Kth(pdf, k)].href

\* six anchors, the first no PDF link and the other five PDF links: all
\* five are returned, which capping before filtering would not do
C2_Witness ==
    /\ received.ustr.kind = "http"
    /\ Len(received.ustr.body) = 6
    /\ received.ustr.body[1] = Anchor(BHtml)
    /\ received.ustr.body[2] = Anchor(CPdf)
    /\ received.ustr.body[6] = Anchor(APdf)
    /\ Len(ustr_links) = 5

\* C3: an HTTP error status from the tariff-lookup page or from the
\* regulatory listing page gives a reported fetch error and an empty result.
C3_ErrorStatusGivesEmptyResult ==
    /\ ErrorStatus(received.usitc) =>
          usitc_data = <<>> /\ "usitc_error" \in reports
    /\ ErrorStatus(received.ustr) =>
          ustr_links = <<>> /\ "ustr_error" \in reports

\* the half of C3 that is about scrape_usitc_tariffs
UsitcErrorStatusGivesEmptyResult ==
    ErrorStatus(received.usitc) => usitc_data = <<>> /\ "usitc_error" \in reports

FetchFailed(r) == r.kind # "none" /\ (r.kind # "http" \/ r.status >= 400)

\* no run stops before the three sources were fetched
SourcesIsolated ==
    /\ pc = "crashed" => received.ustr.kind # "none"
    /\ received.ustr.kind # "none" => received.wto.kind # "none"

\* C4: a fetch or parse failure of any of the three sources becomes an empty
\* result and a reported error, and the other sources are still fetched in
\* the same run.
C4_FailuresConvertedAndIsolated ==
    /\ SourcesIsolated
    /\ FetchFailed(received.usitc) => usitc_data = <<>> /\ "usitc_error" \in reports
    /\ (FetchFailed(received.wto) \/ (received.wto.kind = "http" /\ ~received.wto.valid))
          => wto_data = <<>> /\ "wto_error" \in reports
    /\ FetchFailed(received.ustr) => ustr_links = <<>> /\ "ustr_error" \in reports

\* C5: when the write succeeded and the notification failed, the entry is
\* stored, the save is reported as successful, "Failed to add to
\* watchlist" is not reported, the run goes on to the WTO and USTR sections,
\* and a successful listing of that run returns the entry (first).
C5_NotifyFailureKeepsSave ==
    (received.add = "ok" /\ received.email \in EmailFailures) =>
        /\ \E d \in store : d.timestamp = clock /\ to_item(d) = ItemOf(EntryOfRun)
        /\ "added" \in reports
        /\ "add_error" \notin reports
        /\ "email_error" \in reports
        /\ pc = "crashed" => received.ustr.kind # "none"
        /\ received.list = "ok" =>
              /\ watchlist_items # <<>>
              /\ watchlist_items[1] = ItemOf(EntryOfRun)

C5_Witness ==
    /\ received.add = "ok"
    /\ received.email = "rejected"
    /\ received.list = "ok"
    /\ pc = "done"
    /\ Len(watchlist_items) = 2

\* C6: a successful listing returns the entries of all successful adds,
\* the most recently added first (timestamps descending); identical adds
\* give separate entries.
C6_ListingNewestFirst ==
    received.list = "ok" =>
        /\ watchlist_items = Reverse([i \in 1..Len(added) |-> ItemOf(added[i])])
        /\ \A d, e \in store : d.id < e.id => d.timestamp < e.timestamp

\* "Applied" was added before "Section 301" and is listed after it
C6_Witness ==
    /\ received.list = "ok"
    /\ Len(added) = 2
    /\ added[1].tariff_type = "Applied"
    /\ added[2].tariff_type = "Section 301"
    /\ Len(watchlist_items) = 2
    /\ watchlist_items[1].TariffType = "Section 301"

\* two adds of the same search are listed as two entries
IdenticalAddsListedTwice ==
    /\ received.list = "ok"
    /\ Len(added) = 2
    /\ added[1] = added[2]
    /\ Len(watchlist_items) = 2
    /\ watchlist_items[1] = watchlist_items[2]

\* C7: a store failure is reported inline and does not stop the run: the
\* lookups of the run are fetched and their results are what the remote
\* sides answered, and a failed add stores nothing.
C7_StoreFailureNotFatal ==
    /\ received.add = "unavailable" =>
          /\ "add_error" \in reports
          /\ "added" \notin reports
          /\ usitc_data = scrape_rows(received.usitc.body)
          /\ usitc_data # <<>>
          /\ pc = "crashed" => received.ustr.kind # "none"
    /\ received.list = "unavailable" =>
          /\ "list_error" \in reports
          /\ pc = "done"
          /\ received.wto.kind # "none"
          /\ received.ustr.kind # "none"
    /\ Cardinality(store) = Len(added)
    /\ Range(added) = {[query |-> d.query, country |-> d.country,
                        tariff_type |-> d.tariff_type] : d \in store}

C7_Witness ==
    /\ pc = "done"
    /\ received.add = "unavailable"
    /\ received.list = "unavailable"
    /\ store = {}
    /\ Len(usitc_data) = 2
    /\ Len(wto_data) = 10
    /\ Len(ustr_links) = 2

\* C8: the table fetch, the link-list fetch and the notifier call return even
\* when the remote side never answers.
C8_SilentPeerStillReturns ==
    (pc \in {"usitc_wait", "ustr_wait", "email_wait"} /\ wire.kind = "silent") => ENABLED Next

\* the part of C8 that is about the table fetch
UsitcSilentPeerStillReturns ==
    (pc = "usitc_wait" /\ wire.kind = "silent") => ENABLED Next

\* C9: a stored entry is never updated or deleted, and every successful
\* listing holds every stored entry with its query, country and tariff type.
C9_AppendOnly ==
    [][/\ store \subseteq store'
       /\ received'.list = "ok" =>
             \A d \in store : to_item(d) \in Range(watchlist_items')]_vars

\* a later run without an add lists the two entries stored by earlier runs
C9_Witness ==
    /\ pc = "done"
    /\ received.add = "none"
    /\ received.list = "ok"
    /\ Cardinality(store) = 2
    /\ Len(watchlist_items) = 2

\* C10: an entry is written only in a run with a non-empty query, country
\* "United States" and a non-empty USITC result of that run; so every stored
\* entry has a non-empty query and country "United States".
C10_AddOnlyAfterUsLookup ==
    /\ (pc = "add" \/ received.add # "none") =>
          /\ query # ""
          /\ country = "United States"
          /\ usitc_data # <<>>
          /\ received.usitc.kind = "http"
          /\ received.usitc.status < 400
    /\ \A d \in store : d.query # "" /\ d.country = "United States"

C10_Witness ==
    /\ received.add = "ok"
    /\ store # {}
    /\ pc = "done"

=============================================================================
